---- MODULE Spec2Model ----
(***************************************************************************)
(* Model of @kastov/cryptohapp: createHappCryptoLink in its three builds   *)
(* (node:crypto backend, jsencrypt frontend, jsencrypt with asLink).       *)
(*                                                                         *)
(* Strings are sequences of one-character strings, buffers are sequences   *)
(* of bytes (0..255), hexadecimal text is a sequence of digits (0..15).    *)
(* A content string is a sequence of Unicode code points.                  *)
(***************************************************************************)
EXTENDS Integers, Sequences, FiniteSets, TLC

VARIABLES CRYPTO_CONFIGS, request, ret

vars == <<CRYPTO_CONFIGS, request, ret>>

-----------------------------------------------------------------------------
(* Bounds of the model                                                     *)

\* number of distinct padding-randomness outcomes the environment may draw
NumSeeds == 2

-----------------------------------------------------------------------------
(* Program constants                                                       *)

RSA_PKCS1_PADDING == 1

\* modulus size of the embedded public keys (../constants, not in src/)
KeyBits == 4096

\* 'happ://cryptN/' as a string
DeepLinkOf(digit) ==
    <<"h", "a", "p", "p", ":", "/", "/", "c", "r", "y", "p", "t", digit, "/">>

\* an embedded PEM public key: which key it is, and its modulus size
PublicKeyOf(n) == [id |-> n, bits |-> KeyBits]

HAPP_CRYPTO_V2 == [publicKey |-> PublicKeyOf(2), deepLink |-> DeepLinkOf("2")]
HAPP_CRYPTO_V3 == [publicKey |-> PublicKeyOf(3), deepLink |-> DeepLinkOf("3")]
HAPP_CRYPTO_V4 == [publicKey |-> PublicKeyOf(4), deepLink |-> DeepLinkOf("4")]

\* type HappCryptoVersion = 'v2' | 'v3' | 'v4'
HappCryptoVersion == {"v2", "v3", "v4"}

\* the value of the module constant CRYPTO_CONFIGS after module evaluation
CRYPTO_CONFIGS_Table ==
    [v \in HappCryptoVersion |->
        CASE v = "v2" -> HAPP_CRYPTO_V2
          [] v = "v3" -> HAPP_CRYPTO_V3
          [] v = "v4" -> HAPP_CRYPTO_V4]

-----------------------------------------------------------------------------
(* JavaScript values                                                       *)

\* an argument the caller left out (the parameter is undefined)
Omitted == "<omitted>"

\* results of a try body: a returned value or a thrown exception
Null == [kind |-> "null"]
Throw == [kind |-> "throw"]
Pending == [kind |-> "pending"]
JsLink(s) == [kind |-> "string", str |-> s]
JsResult(d, e) == [kind |-> "object", deepLink |-> d, encryptedContent |-> e]

\* JavaScript undefined
JsUndefined == [kind |-> "undefined"]

\* the boolean false, as jsencrypt's encrypt() returns it on failure
JsFalse == [kind |-> "boolean", str |-> <<>>]
JsString(s) == [kind |-> "string", str |-> s]

\* !v for the values encrypt() can return: false and '' are falsy
Falsy(v) == v.kind \in {"boolean", "undefined", "null"} \/ v.str = <<>>

\* asLink as the caller passes it: true, false, or left out
AsLinkArgs == {"true", "false", Omitted}
Truthy(asLink) == asLink = "true"

-----------------------------------------------------------------------------
(* Content strings                                                         *)

\* bytes of one code point in UTF-8, as Buffer.from(content) encodes it
Utf8Width(cp) ==
    IF cp < 128 THEN 1 ELSE IF cp < 2048 THEN 2 ELSE IF cp < 65536 THEN 3 ELSE 4

\* UTF-16 code units of one code point (what String.length counts)
Utf16Width(cp) == IF cp < 65536 THEN 1 ELSE 2

\* Buffer.from(content).length: one byte per code point, and one more for
\* each code point of width two or more, of three or more, and of four
Utf8Length(s) ==
    Len(s) + Cardinality({i \in DOMAIN s : Utf8Width(s[i]) >= 2})
           + Cardinality({i \in DOMAIN s : Utf8Width(s[i]) >= 3})
           + Cardinality({i \in DOMAIN s : Utf8Width(s[i]) >= 4})

\* content.length: one code unit per code point, two for a surrogate pair
Utf16Length(s) ==
    Len(s) + Cardinality({i \in DOMAIN s : Utf16Width(s[i]) = 2})

\* 'a' repeated n times
Repeat(n) == [i \in 1..n |-> 97]

\* endings of one code point of each UTF-8 width: none, U+00E9 (2 bytes),
\* U+20AC (3 bytes), U+1F600 (4 bytes, a surrogate pair in UTF-16)
Tails == {<<>>, <<233>>, <<8364>>, <<128512>>}

\* PKCS#1 v1.5 capacity in bytes of a key of the given modulus size
Capacity(bits) == bits \div 8 - 11

\* the contents the caller passes: the empty string, single characters, and
\* strings of exactly as many UTF-8 bytes as the keys take, and of one more
Contents ==
    Tails \cup
    { Repeat(n - Utf8Length(t)) \o t :
        n \in {Capacity(KeyBits), Capacity(KeyBits) + 1}, t \in Tails }

\* the version argument as the caller passes it at run time: a supported tag,
\* left out, an unknown tag, or a name every object inherits
ObjectPrototypeKeys == {"constructor"}
VersionArgs == HappCryptoVersion \cup {Omitted, "v5"} \cup ObjectPrototypeKeys

\* what the environment decides for one call: the padding randomness, and
\* whether the primitive faults (random source or engine failure)
Envs == [seed : 1..NumSeeds, fault : BOOLEAN]

-----------------------------------------------------------------------------
(* Encodings                                                               *)

b64map ==
    <<"A", "B", "C", "D", "E", "F", "G", "H", "I", "J", "K", "L", "M",
      "N", "O", "P", "Q", "R", "S", "T", "U", "V", "W", "X", "Y", "Z",
      "a", "b", "c", "d", "e", "f", "g", "h", "i", "j", "k", "l", "m",
      "n", "o", "p", "q", "r", "s", "t", "u", "v", "w", "x", "y", "z",
      "0", "1", "2", "3", "4", "5", "6", "7", "8", "9", "+", "/">>
b64pad == "="

\* sextet value 0..63 to its character, in the standard or the URL alphabet
B64Char(v, encoding) ==
    IF encoding = "base64url" /\ v = 62 THEN "-"
    ELSE IF encoding = "base64url" /\ v = 63 THEN "_"
    ELSE b64map[v + 1]

\* Buffer.prototype.toString(encoding) for 'base64' (RFC 4648 with padding)
\* and 'base64url' (URL alphabet, no padding)
Buffer_toString(bytes, encoding) ==
    LET k == Len(bytes)
        At(i) == IF i <= k THEN bytes[i] ELSE 0
        Group(g) == At(3 * g + 1) * 65536 + At(3 * g + 2) * 256 + At(3 * g + 3)
        Sextet(j) ==
            LET g == (j - 1) \div 4
                p == (j - 1) % 4
            IN CASE p = 0 -> Group(g) \div 262144
                 [] p = 1 -> (Group(g) \div 4096) % 64
                 [] p = 2 -> (Group(g) \div 64) % 64
                 [] p = 3 -> Group(g) % 64
        \* characters that carry data: ceil(8k / 6)
        data == (8 * k + 5) \div 6
        total == IF encoding = "base64" THEN 4 * ((k + 2) \div 3) ELSE data
    IN [j \in 1..total |->
          IF j <= data THEN B64Char(Sextet(j), encoding) ELSE b64pad]

\* a buffer as the fixed-width hexadecimal text jsencrypt's RSAKey.encrypt
\* returns: c.toString(16) left-padded with '0' to two digits per byte
HexOf(bytes) ==
    [d \in 1..(2 * Len(bytes)) |->
        IF d % 2 = 1 THEN bytes[(d + 1) \div 2] \div 16
                     ELSE bytes[d \div 2] % 16]

\* jsencrypt's hex2b64: three hex digits make two characters, a rest of one
\* or two digits makes one or two, then '=' up to a multiple of four
hex2b64(h) ==
    LET n == Len(h)
        full == n \div 3
        rest == n % 3
        Triple(g) == h[3 * g + 1] * 256 + h[3 * g + 2] * 16 + h[3 * g + 3]
        unpadded == 2 * full + rest
        total == 4 * ((unpadded + 3) \div 4)
        Char(j) ==
            IF j <= 2 * full
            THEN LET c == Triple((j - 1) \div 2)
                 IN IF j % 2 = 1 THEN b64map[(c \div 64) + 1] ELSE b64map[(c % 64) + 1]
            ELSE IF rest = 1
            THEN b64map[(h[n] * 4) + 1]
            ELSE LET c == h[n - 1] * 16 + h[n]
                 IN IF j = 2 * full + 1 THEN b64map[(c \div 4) + 1]
                                        ELSE b64map[((c % 4) * 16) + 1]
    IN [j \in 1..total |-> IF j <= unpadded THEN Char(j) ELSE b64pad]

-----------------------------------------------------------------------------
(* The RSA primitive of the two libraries                                  *)

\* an RSA ciphertext: one byte string of the modulus size per key, content
\* and padding randomness (the bytes stand for the value the primitive
\* computes; only their dependence on key, content and randomness matters)
RsaCiphertext(key, content, seed) ==
    [i \in 1..(key.bits \div 8) |->
        (key.id * 7 + seed * 31 + Len(content) * 13 + i * 5) % 256]

\* node:crypto publicEncrypt(options, buffer) with buffer = Buffer.from(content):
\* throws on a key that is no key, on a fault of the engine, and on data too
\* large for the key size under the padding; else returns the ciphertext
publicEncrypt(options, content, env) ==
    IF options.key.kind # "pem" THEN Throw
    ELSE IF env.fault THEN Throw
    ELSE IF options.padding = RSA_PKCS1_PADDING
            /\ Utf8Length(content) > Capacity(options.key.bits) THEN Throw
    ELSE [kind |-> "buffer",
          bytes |-> RsaCiphertext(options.key, content, env.seed)]

\* new JSEncrypt(); setPublicKey(key): the instance holds the parsed key, or
\* a key object without modulus when the argument is no PEM text
JSEncrypt_setPublicKey(key) ==
    IF key.kind = "pem" THEN [n |-> TRUE, id |-> key.id, bits |-> key.bits]
    ELSE [n |-> FALSE, id |-> 0, bits |-> 0]

\* jsencrypt RSAKey.encrypt(text): pkcs1pad2 rejects a text of more than
\* maxLength - 11 UTF-16 code units by returning null; a key without modulus
\* and a fault of the engine throw; else the ciphertext as hexadecimal text
RSAKey_encrypt(rsa, content, env) ==
    IF ~rsa.n THEN Throw
    ELSE LET maxLength == (rsa.bits + 7) \div 8
         IN IF maxLength < Utf16Length(content) + 11 THEN Null
            ELSE IF env.fault THEN Throw
            ELSE [kind |-> "hex",
                  digits |-> HexOf(RsaCiphertext(rsa, content, env.seed))]

\* jsencrypt JSEncrypt.encrypt(str):
\*   try { return hex2b64(this.getKey().encrypt(str)) } catch (ex) { return false }
\* hex2b64(null) throws, so a rejected text yields false as well
JSEncrypt_encrypt(rsa, content, env) ==
    LET h == RSAKey_encrypt(rsa, content, env)
    IN IF h.kind = "hex" THEN JsString(hex2b64(h.digits)) ELSE JsFalse

-----------------------------------------------------------------------------
(* createHappCryptoLink                                                    *)

\* mutant: the lookup ignores the tag and takes the newest record
\* (CRYPTO_CONFIGS.v4)
Lookup_alwaysV4(cfgs, version) ==
    [kind |-> "config",
     publicKey |-> [kind |-> "pem", id |-> cfgs["v4"].publicKey.id,
                    bits |-> cfgs["v4"].publicKey.bits],
     deepLink |-> cfgs["v4"].deepLink]

\* mutant: an unknown tag falls back to the newest record
\* (CRYPTO_CONFIGS[version] ?? CRYPTO_CONFIGS.v4)
Lookup_fallbackV4(cfgs, version) ==
    LET v == IF version \in DOMAIN cfgs THEN version ELSE "v4"
    IN [kind |-> "config",
        publicKey |-> [kind |-> "pem", id |-> cfgs[v].publicKey.id,
                       bits |-> cfgs[v].publicKey.bits],
        deepLink |-> cfgs[v].deepLink]

\* CRYPTO_CONFIGS[version]: the record of a supported tag, a member every
\* object inherits (its publicKey and deepLink are undefined), or undefined
Lookup(cfgs, version) ==
    IF version \in DOMAIN cfgs
    THEN [kind |-> "config",
          publicKey |-> [kind |-> "pem", id |-> cfgs[version].publicKey.id,
                         bits |-> cfgs[version].publicKey.bits],
          deepLink |-> cfgs[version].deepLink]
    ELSE IF version \in ObjectPrototypeKeys
    THEN [kind |-> "inherited", publicKey |-> JsUndefined, deepLink |-> <<>>]
    ELSE JsUndefined

\* mutant: the parameter has no default
DefaultVersion_none(version) == version

\* version: HappCryptoVersion = 'v4': the default applies to a left-out argument
DefaultVersion(version) == IF version = Omitted THEN "v4" ELSE version

\* mutant: no catch, the exception leaves the function
CatchAll_rethrow(r) == r

\* try { ... } catch { return null }
CatchAll(r) == IF r.kind = "throw" THEN Null ELSE r

\* mutant: the ciphertext is encoded with encrypted.toString('base64url')
nodeCrypto_try_base64url(cfgs, content, version, env) ==
    LET config == Lookup(cfgs, version)
    IN IF config.kind = "undefined" THEN Throw
       ELSE LET options == [key |-> config.publicKey, padding |-> RSA_PKCS1_PADDING]
                encrypted == publicEncrypt(options, content, env)
            IN IF encrypted.kind = "throw" THEN Throw
               ELSE JsResult(config.deepLink,
                             Buffer_toString(encrypted.bytes, "base64url"))

\* the try body of the node:crypto build
nodeCrypto_try(cfgs, content, version, env) ==
    LET config == Lookup(cfgs, version)
    IN IF config.kind = "undefined" THEN Throw
       ELSE LET options == [key |-> config.publicKey, padding |-> RSA_PKCS1_PADDING]
                encrypted == publicEncrypt(options, content, env)
            IN IF encrypted.kind = "throw" THEN Throw
               ELSE JsResult(config.deepLink,
                             Buffer_toString(encrypted.bytes, "base64"))

\* createHappCryptoLink(content, version = 'v4'), node:crypto build
createHappCryptoLink_nodeCrypto(cfgs, content, version, env) ==
    CatchAll(nodeCrypto_try(cfgs, content, DefaultVersion(version), env))

\* mutant: the result of encrypt() is not tested before it is returned
asLink_try_unchecked(cfgs, content, version, asLink, env) ==
    LET config == Lookup(cfgs, version)
    IN IF config.kind = "undefined" THEN Throw
       ELSE LET encrypt == JSEncrypt_setPublicKey(config.publicKey)
                encryptedContent == JSEncrypt_encrypt(encrypt, content, env)
            IN IF Truthy(asLink)
               THEN JsLink(config.deepLink \o encryptedContent.str)
               ELSE JsResult(config.deepLink, encryptedContent.str)

\* mutant: the link is joined with a separator
\* (config.deepLink + '/' + encryptedContent)
asLink_try_separator(cfgs, content, version, asLink, env) ==
    LET config == Lookup(cfgs, version)
    IN IF config.kind = "undefined" THEN Throw
       ELSE LET encrypt == JSEncrypt_setPublicKey(config.publicKey)
                encryptedContent == JSEncrypt_encrypt(encrypt, content, env)
            IN IF Falsy(encryptedContent) THEN Null
               ELSE IF Truthy(asLink)
               THEN JsLink(config.deepLink \o <<"/">> \o encryptedContent.str)
               ELSE JsResult(config.deepLink, encryptedContent.str)

\* the try body of the jsencrypt build with the asLink parameter
asLink_try(cfgs, content, version, asLink, env) ==
    LET config == Lookup(cfgs, version)
    IN IF config.kind = "undefined" THEN Throw
       ELSE LET encrypt == JSEncrypt_setPublicKey(config.publicKey)
                encryptedContent == JSEncrypt_encrypt(encrypt, content, env)
            IN IF Falsy(encryptedContent) THEN Null
               ELSE IF Truthy(asLink)
               THEN JsLink(config.deepLink \o encryptedContent.str)
               ELSE JsResult(config.deepLink, encryptedContent.str)

\* createHappCryptoLink(content, version, asLink?), jsencrypt build: the
\* version parameter has no default
createHappCryptoLink_asLink(cfgs, content, version, asLink, env) ==
    CatchAll(asLink_try(cfgs, content, version, asLink, env))

\* mutant: the guard tests the content instead of the ciphertext
\* (if (!content) return null)
jsencrypt_try_contentGuard(cfgs, content, version, env) ==
    LET config == Lookup(cfgs, version)
    IN IF config.kind = "undefined" THEN Throw
       ELSE LET encrypt == JSEncrypt_setPublicKey(config.publicKey)
                encryptedContent == JSEncrypt_encrypt(encrypt, content, env)
            IN IF content = <<>> THEN Null
               ELSE JsResult(config.deepLink, encryptedContent.str)

\* the try body of the jsencrypt build without asLink
jsencrypt_try(cfgs, content, version, env) ==
    LET config == Lookup(cfgs, version)
    IN IF config.kind = "undefined" THEN Throw
       ELSE LET encrypt == JSEncrypt_setPublicKey(config.publicKey)
                encryptedContent == JSEncrypt_encrypt(encrypt, content, env)
            IN IF Falsy(encryptedContent) THEN Null
               ELSE JsResult(config.deepLink, encryptedContent.str)

\* createHappCryptoLink(content, version = 'v4'), jsencrypt build
createHappCryptoLink_jsencrypt(cfgs, content, version, env) ==
    CatchAll(jsencrypt_try(cfgs, content, DefaultVersion(version), env))

-----------------------------------------------------------------------------
(* The callers                                                             *)

\* the call forms: the two-argument builds, and the three-argument build with
\* asLink true, false and left out
AsLinkForm(asLink) ==
    CASE asLink = "true" -> "asLink(true)"
      [] asLink = "false" -> "asLink(false)"
      [] asLink = Omitted -> "asLink()"
Forms == {"nodeCrypto", "jsencrypt"} \cup {AsLinkForm(a) : a \in AsLinkArgs}

Requests == [content : Contents, version : VersionArgs, env : Envs]

TypeOK ==
    /\ CRYPTO_CONFIGS \in [HappCryptoVersion -> [publicKey : [id : 2..4, bits : {KeyBits}],
                                                 deepLink : Seq(STRING)]]
    /\ request \in Requests
    /\ DOMAIN ret = Forms

Init ==
    /\ CRYPTO_CONFIGS = CRYPTO_CONFIGS_Table
    /\ request \in Requests
    /\ ret = [f \in Forms |-> Pending]

\* a caller fixes the arguments of the next calls (changing the content or the
\* version), or the environment fixes another outcome of the primitive for them
NewRequest ==
    /\ \/ \E c \in Contents : request' = [request EXCEPT !.content = c]
       \/ \E v \in VersionArgs : request' = [request EXCEPT !.version = v]
       \/ \E e \in Envs : request' = [request EXCEPT !.env = e]
    /\ ret' = [f \in Forms |-> Pending]
    /\ UNCHANGED CRYPTO_CONFIGS

\* the backend build is called with the request's arguments
CallNodeCrypto ==
    /\ ret["nodeCrypto"] = Pending
    /\ ret' = [ret EXCEPT !["nodeCrypto"] =
                 createHappCryptoLink_nodeCrypto(CRYPTO_CONFIGS, request.content,
                                                 request.version, request.env)]
    /\ UNCHANGED <<CRYPTO_CONFIGS, request>>

\* the frontend build is called with the request's arguments
CallJsencrypt ==
    /\ ret["jsencrypt"] = Pending
    /\ ret' = [ret EXCEPT !["jsencrypt"] =
                 createHappCryptoLink_jsencrypt(CRYPTO_CONFIGS, request.content,
                                                request.version, request.env)]
    /\ UNCHANGED <<CRYPTO_CONFIGS, request>>

\* mutant: the link is assembled in the configuration record
\* (config.deepLink += encryptedContent)
CallAsLink_writesConfig ==
    \E asLink \in AsLinkArgs :
        LET r == createHappCryptoLink_asLink(CRYPTO_CONFIGS, request.content,
                                             request.version, asLink, request.env)
        IN /\ ret[AsLinkForm(asLink)] = Pending
           /\ ret' = [ret EXCEPT ![AsLinkForm(asLink)] = r]
           /\ CRYPTO_CONFIGS' =
                IF r.kind = "string" /\ request.version \in DOMAIN CRYPTO_CONFIGS
                THEN [CRYPTO_CONFIGS EXCEPT ![request.version].deepLink = r.str]
                ELSE CRYPTO_CONFIGS
           /\ UNCHANGED request

\* the asLink build is called with the request's arguments and some asLink
CallAsLink ==
    \E asLink \in AsLinkArgs :
        /\ ret[AsLinkForm(asLink)] = Pending
        /\ ret' = [ret EXCEPT ![AsLinkForm(asLink)] =
                     createHappCryptoLink_asLink(CRYPTO_CONFIGS, request.content,
                                                 request.version, asLink, request.env)]
        /\ UNCHANGED <<CRYPTO_CONFIGS, request>>

Next == NewRequest \/ CallNodeCrypto \/ CallJsencrypt \/ CallAsLink

Spec == Init /\ [][Next]_vars

-----------------------------------------------------------------------------
(* Vocabulary of the properties                                            *)

Done(f) == ret[f] # Pending
TwoArgForms == {"nodeCrypto", "jsencrypt"}
AsLinkForms == Forms \ TwoArgForms
JsencryptForms == Forms \ {"nodeCrypto"}

\* the literal prefixes of the documentation
HappPrefix(v) ==
    CASE v = "v2" -> <<"h", "a", "p", "p", ":", "/", "/", "c", "r", "y", "p", "t", "2", "/">>
      [] v = "v3" -> <<"h", "a", "p", "p", ":", "/", "/", "c", "r", "y", "p", "t", "3", "/">>
      [] v = "v4" -> <<"h", "a", "p", "p", ":", "/", "/", "c", "r", "y", "p", "t", "4", "/">>

\* a returned value's prefix and ciphertext text, whatever its shape
PrefixOf(r) ==
    IF r.kind = "object" THEN r.deepLink
    ELSE SubSeq(r.str, 1, Len(HappPrefix("v4")))
CipherTextOf(r) ==
    IF r.kind = "object" THEN r.encryptedContent
    ELSE SubSeq(r.str, Len(HappPrefix("v4")) + 1, Len(r.str))

KeyBytes == KeyBits \div 8
Utf8Oversize == Utf8Length(request.content) > KeyBytes - 11
Utf16Oversize == Utf16Length(request.content) > KeyBytes - 11
Supported(v) == v \in HappCryptoVersion

\* C1: whatever the content, the version and asLink, no call ends with an
\* exception leaving the function; and a call whose primitive fails (engine
\* fault, a key that is no key, a plaintext the primitive rejects as too
\* long) returns null
C1_NoFaultEscapes ==
    \A f \in Forms :
        /\ ret[f].kind # "throw"
        /\ Done(f) /\ request.env.fault => ret[f] = Null
        /\ Done(f) /\ request.version \in ObjectPrototypeKeys => ret[f] = Null
        /\ Done(f) /\ Utf16Oversize => ret[f] = Null
        /\ Done(f) /\ f = "nodeCrypto" /\ Utf8Oversize => ret[f] = Null

C1_Witness ==
    /\ request.env.fault
    /\ Supported(request.version)
    /\ \A f \in Forms : ret[f] = Null

\* C2: a result that is not null never carries an empty encryptedContent,
\* and the jsencrypt builds return null whenever encrypt() returned false
C2_NoPartialResult ==
    \A f \in Forms :
        /\ Done(f) /\ ret[f] # Null =>
              /\ ret[f].kind \in {"object", "string"}
              /\ CipherTextOf(ret[f]) # <<>>
        /\ Done(f) /\ f \in JsencryptForms
             /\ (Utf16Oversize \/ request.env.fault) => ret[f] = Null

C2_Witness ==
    /\ Utf16Oversize
    /\ ~request.env.fault
    /\ Supported(request.version)
    /\ \A f \in JsencryptForms : ret[f] = Null

\* C3: with the same ciphertext, asLink = true returns the deepLink of the
\* object returned with asLink false or left out, directly followed by its
\* encryptedContent; and it returns null exactly when the other does
C3_OutputShapeEquivalence ==
    \A f \in {"asLink(false)", "asLink()"} :
        Done("asLink(true)") /\ Done(f) =>
            /\ ret["asLink(true)"] = Null <=> ret[f] = Null
            /\ ret[f] # Null =>
                  /\ ret["asLink(true)"].kind = "string"
                  /\ ret[f].kind = "object"
                  /\ ret["asLink(true)"].str =
                        ret[f].deepLink \o ret[f].encryptedContent

C3_Witness ==
    /\ Done("asLink(true)") /\ Done("asLink(false)") /\ Done("asLink()")
    /\ ret["asLink(true)"].kind = "string"
    /\ ret["asLink(false)"].kind = "object"
    /\ ret["asLink()"].kind = "object"

\* C4: a result for a supported version tag carries that version's prefix,
\* happ://crypt2/, happ://crypt3/ or happ://crypt4/, in every call
C4_PrefixOfVersion ==
    \A f \in Forms :
        Done(f) /\ ret[f] # Null /\ Supported(request.version) =>
            PrefixOf(ret[f]) = HappPrefix(request.version)

C4_Witness ==
    /\ request.version = "v2"
    /\ \A f \in Forms : Done(f) /\ ret[f] # Null
    /\ ret["asLink(true)"].kind = "string"

\* C5 as stated: with the version left out, every build returns what it
\* returns for 'v4'
C5_DefaultInEveryVariant ==
    request.version = Omitted =>
        /\ Done("nodeCrypto") =>
              ret["nodeCrypto"] =
                 createHappCryptoLink_nodeCrypto(CRYPTO_CONFIGS, request.content,
                                                 "v4", request.env)
        /\ Done("jsencrypt") =>
              ret["jsencrypt"] =
                 createHappCryptoLink_jsencrypt(CRYPTO_CONFIGS, request.content,
                                                "v4", request.env)
        /\ \A a \in AsLinkArgs :
              Done(AsLinkForm(a)) =>
                 ret[AsLinkForm(a)] =
                    createHappCryptoLink_asLink(CRYPTO_CONFIGS, request.content,
                                                "v4", a, request.env)

\* C5 amended: with the version left out, the two-parameter builds return
\* what they return for 'v4' (prefix happ://crypt4/ on success); the build
\* with the asLink parameter has no default and returns null
C5_DefaultInTwoArgVariants ==
    request.version = Omitted =>
        /\ Done("nodeCrypto") =>
              /\ ret["nodeCrypto"] =
                    createHappCryptoLink_nodeCrypto(CRYPTO_CONFIGS, request.content,
                                                    "v4", request.env)
              /\ ret["nodeCrypto"] # Null =>
                    ret["nodeCrypto"].deepLink = HappPrefix("v4")
        /\ Done("jsencrypt") =>
              /\ ret["jsencrypt"] =
                    createHappCryptoLink_jsencrypt(CRYPTO_CONFIGS, request.content,
                                                   "v4", request.env)
              /\ ret["jsencrypt"] # Null =>
                    ret["jsencrypt"].deepLink = HappPrefix("v4")
        /\ \A f \in AsLinkForms : Done(f) => ret[f] = Null

C5_Witness ==
    /\ request.version = Omitted
    /\ ret["nodeCrypto"].kind = "object"
    /\ ret["jsencrypt"].kind = "object"
    /\ \A f \in AsLinkForms : ret[f] = Null

\* C6: a version tag outside v2, v3, v4 passed at run time makes every build
\* return null, for every content and asLink
C6_UnrecognizedVersion ==
    request.version \notin HappCryptoVersion \cup {Omitted} =>
        \A f \in Forms : Done(f) => ret[f] = Null

C6_Witness ==
    /\ request.version \in ObjectPrototypeKeys
    /\ ~request.env.fault
    /\ request.content = <<233>>
    /\ \A f \in Forms : ret[f] = Null

\* C7: with a working primitive and a key of N bits, a content of exactly
\* N/8 - 11 UTF-8 bytes yields a result and one of N/8 - 10 bytes yields null
C7_CapacityBoundary ==
    \A f \in Forms :
        LET v == IF f \in TwoArgForms THEN DefaultVersion(request.version)
                 ELSE request.version
        IN Done(f) /\ Supported(v) /\ ~request.env.fault =>
              LET N == CRYPTO_CONFIGS[v].publicKey.bits
                  len == Utf8Length(request.content)
              IN /\ len = N \div 8 - 11 => ret[f] # Null
                 /\ len = N \div 8 - 10 => ret[f] = Null

\* C8: with a working primitive, the empty string is encrypted for every
\* supported version: the result is not null and its encryptedContent is a
\* non-empty base64 text
C8_EmptyContent ==
    \A f \in Forms :
        Done(f) /\ request.content = <<>> /\ Supported(request.version)
          /\ ~request.env.fault =>
            /\ ret[f] # Null
            /\ LET e == CipherTextOf(ret[f])
               IN /\ e # <<>>
                  /\ Len(e) % 4 = 0
                  /\ \A i \in DOMAIN e :
                        e[i] \in {b64map[j] : j \in DOMAIN b64map} \cup {b64pad}

C8_Witness ==
    /\ request.content = <<>>
    /\ Supported(request.version)
    /\ ret["nodeCrypto"].kind = "object"
    /\ ret["jsencrypt"].kind = "object"
    /\ ret["asLink(true)"].kind = "string"

\* C9: after any sequence of calls the configuration table is the one the
\* module was loaded with, and every returned value is the value its own
\* arguments and its own randomness determine from that table
C9_ConfigUnchangedNoRetainedState ==
    /\ CRYPTO_CONFIGS = CRYPTO_CONFIGS_Table
    /\ Done("nodeCrypto") =>
          ret["nodeCrypto"] =
             createHappCryptoLink_nodeCrypto(CRYPTO_CONFIGS_Table, request.content,
                                             request.version, request.env)
    /\ Done("jsencrypt") =>
          ret["jsencrypt"] =
             createHappCryptoLink_jsencrypt(CRYPTO_CONFIGS_Table, request.content,
                                            request.version, request.env)
    /\ \A a \in AsLinkArgs :
          Done(AsLinkForm(a)) =>
             ret[AsLinkForm(a)] =
                createHappCryptoLink_asLink(CRYPTO_CONFIGS_Table, request.content,
                                            request.version, a, request.env)

C9_Witness ==
    /\ \A f \in Forms : Done(f)
    /\ ret["nodeCrypto"] = Null
    /\ ret["asLink(true)"].kind = "string"
    /\ ret["asLink(false)"].kind = "object"
    /\ CRYPTO_CONFIGS = CRYPTO_CONFIGS_Table

\* C10: for the same content and version, when the primitive of both
\* libraries has the same outcome (both fail, or both deliver the same
\* ciphertext), the backend and the frontend build return the same value
C10_BackendFrontendAgree ==
    LET v == DefaultVersion(request.version)
        nodeFails == ~Supported(v) \/ request.env.fault \/ Utf8Oversize
        jsFails == ~Supported(v) \/ request.env.fault \/ Utf16Oversize
    IN Done("nodeCrypto") /\ Done("jsencrypt") /\ (nodeFails <=> jsFails) =>
          ret["nodeCrypto"] = ret["jsencrypt"]

C10_Witness ==
    /\ ret["nodeCrypto"].kind = "object"
    /\ ret["jsencrypt"].kind = "object"
    /\ ret["nodeCrypto"] = ret["jsencrypt"]
    /\ Len(request.content) > 1

====
